---- MODULE Spec2Model ----
(***************************************************************************)
(* Cykel: a passphrase-encrypted vault (crypto.js, storage.js), the cycle  *)
(* reconstruction / prediction engine (prediction.js) and the app session  *)
(* that uses them (app.js).                                                *)
(*                                                                         *)
(* One specification per component whose behaviour is checked:             *)
(*   SpecCrypto       encrypt / decrypt of the vault codec                 *)
(*   SpecRebuild      rebuildCycles over a list of day logs, and the       *)
(*                    prediction engine on its result                      *)
(*   SpecPredict      predict / fertilityWindow / cycleStats over cycles   *)
(*   SpecPredictTies  the same over cycles that share a start date         *)
(*   SpecApp          the handlers of app.js over the vault store          *)
(*   SpecAppFair      SpecApp with timers firing and requests settling     *)
(*   SpecDayLog       the day-log form in one unlocked session             *)
(***************************************************************************)
EXTENDS Integers, Sequences, FiniteSets, TLC

VARIABLES
    \* --- vault codec (crypto.js) ---
    cryptoPc,      \* "idle" | "sealed" | "opened"
    encPass,       \* passphrase given to encrypt
    plaintext,     \* bytes given to encrypt
    envelope,      \* bytes handed to decrypt: salt || iv || ciphertext
    intact,        \* TRUE while envelope is exactly what encrypt returned
    decPass,       \* passphrase given to decrypt
    decResult,     \* what decrypt returned or threw
    \* --- cycle reconstructor (prediction.js) ---
    dayLogs,       \* the list given to rebuildCycles
    today,         \* fmtDate(new Date()) at the time of the call
    rebuilt,       \* what rebuildCycles returned
    \* --- prediction engine (prediction.js) ---
    cycles,        \* the list given to predict / fertilityWindow
    prediction,    \* what predict returned
    fertility,     \* what fertilityWindow returned
    stats,         \* what cycleStats returned (or threw)
    \* --- the app session (app.js) and the vault store (storage.js) ---
    passphrase,        \* Null, or <<P>> while held in memory
    appData,           \* Null, or <<the AppData record>>
    screen,            \* the screen showScreen displayed last
    selectedDate,      \* day-log form: the date opened
    selectedFlow,      \* day-log form: the flow button active
    selectedSymptoms,  \* day-log form: the chips active, in insertion order
    daylogNotes,       \* day-log form: the notes field
    autoLockTimer,     \* Null, or <<minutes>> of the pending timeout
    autoLockMinutes,
    showFertility,
    store,             \* the vault slot of IndexedDB: Null, or <<blob>>
    loading,           \* the unlock handler suspended in storage.load
    saves,             \* storage.save calls awaiting encryption, in call order
    puts,              \* IndexedDB requests issued and not settled, in issue order:
                       \* the dbPut of a storage.save call, the dbDelete of a wipe
    wipes,             \* wipe handlers suspended in storage.wipe
    \* --- history, read by the properties only ---
    session,           \* "unlocked" from enterApp until doLock or wipe
    events,            \* user and clock events so far
    putFailures,       \* dbPut rejections so far
    lastSerialized,    \* what the latest storage.save call serialized
    unlockResult,      \* "none" | "pending" | "ok" | "failed"
    loadResult,        \* what the latest storage.load returned or threw
    atLock             \* appData as doLock found it in the latest session

cryptoVars  == <<cryptoPc, encPass, plaintext, envelope, intact, decPass, decResult>>
rebuildVars == <<dayLogs, today, rebuilt>>
predictVars == <<cycles, prediction, fertility, stats>>
formVars == <<selectedDate, selectedFlow, selectedSymptoms, daylogNotes>>
asyncVars == <<loading, saves, puts, wipes>>
historyVars == <<session, events, putFailures, lastSerialized, unlockResult, loadResult, atLock>>
appVars == <<passphrase, appData, screen, formVars, autoLockTimer, autoLockMinutes,
             showFertility, store, asyncVars, historyVars>>
vars == <<cryptoVars, rebuildVars, predictVars, appVars>>

(***************************************************************************)
(* Generic helpers                                                         *)
(***************************************************************************)
Max2(a, b) == IF a >= b THEN a ELSE b

RECURSIVE SumSeq(_)
SumSeq(s) == IF Len(s) = 0 THEN 0 ELSE Head(s) + SumSeq(Tail(s))

\* JS null / "no value": the empty tuple.  A date is <<y, m, d>>, a returned
\* record is wrapped as <<record>>, so either compares against Null.
Null == <<>>

(***************************************************************************)
(* Dates.  A date string "YYYY-MM-DD" is the tuple <<y, m, d>>; the string *)
(* order of zero-padded dates is the lexicographic order of the tuples.    *)
(***************************************************************************)
IsLeap(y) == (y % 4 = 0 /\ y % 100 # 0) \/ y % 400 = 0

DaysInMonth(y, m) ==
    IF m = 2 THEN (IF IsLeap(y) THEN 29 ELSE 28)
    ELSE IF m \in {4, 6, 9, 11} THEN 30 ELSE 31

RECURSIVE DaysBeforeMonth(_, _)
DaysBeforeMonth(y, m) ==
    IF m = 1 THEN 0 ELSE DaysBeforeMonth(y, m - 1) + DaysInMonth(y, m - 1)

\* Number of leap years in 1..y
LeapsThrough(y) == (y \div 4) - (y \div 100) + (y \div 400)

\* parseDate: the local midnight of the date, counted in whole days.
parseDate(s) ==
    365 * (s[1] - 1) + LeapsThrough(s[1] - 1) + DaysBeforeMonth(s[1], s[2]) + (s[3] - 1)

\* daysBetween(a, b) = Math.round((parseDate(b) - parseDate(a)) / 86400000)
daysBetween(a, b) == parseDate(b) - parseDate(a)

\* The string comparison used by Array.prototype.sort() and localeCompare.
StrLess(a, b) ==
    \/ a[1] < b[1]
    \/ a[1] = b[1] /\ a[2] < b[2]
    \/ a[1] = b[1] /\ a[2] = b[2] /\ a[3] < b[3]

RECURSIVE Normalise(_, _, _)
\* new Date(y, m - 1, d) / Date.setDate: a day of the month outside
\* 1..DaysInMonth carries into the neighbouring months.
Normalise(y, m, d) ==
    IF d > DaysInMonth(y, m)
    THEN (IF m < 12 THEN Normalise(y, m + 1, d - DaysInMonth(y, m))
          ELSE Normalise(y + 1, 1, d - DaysInMonth(y, m)))
    ELSE IF d < 1
    THEN (IF m > 1 THEN Normalise(y, m - 1, d + DaysInMonth(y, m - 1))
          ELSE Normalise(y - 1, 12, d + DaysInMonth(y - 1, 12)))
    ELSE <<y, m, d>>

\* d.setDate(d.getDate() + n); fmtDate(d)
addDays(dateStr, n) == Normalise(dateStr[1], dateStr[2], dateStr[3] + n)

(***************************************************************************)
(* Numbers.  A quotient is kept exact as [num, den], den > 0.              *)
(***************************************************************************)
\* mean(arr): 0 for the empty array, else sum / length.
mean(arr) ==
    IF Len(arr) = 0 THEN [num |-> 0, den |-> 1]
    ELSE [num |-> SumSeq(arr), den |-> Len(arr)]

\* Math.round(q): the nearest integer, halves towards +infinity.
MathRound(q) == (2 * q.num + q.den) \div (2 * q.den)

RECURSIVE SumSqDev(_, _, _)
\* sum over v in arr of (n*v - s)^2, i.e. n^2 * sum (v - avg)^2 for avg = s/n
SumSqDev(arr, n, s) ==
    IF Len(arr) = 0 THEN 0
    ELSE (n * Head(arr) - s) * (n * Head(arr) - s) + SumSqDev(Tail(arr), n, s)

\* stdDev(arr): 0 below two samples, else sqrt(sum (v - avg)^2 / (n - 1)).
\* The square root is irrational, so the value is kept as its radicand.
stdDev(arr) ==
    IF Len(arr) < 2 THEN [sq_num |-> 0, sq_den |-> 1]
    ELSE [sq_num |-> SumSqDev(arr, Len(arr), SumSeq(arr)),
          sq_den |-> Len(arr) * Len(arr) * (Len(arr) - 1)]

\* A double of the form 1 - sqrt(rn / rd), or -Infinity, or NaN.
Fin(rn, rd) == [kind |-> "fin", rn |-> rn, rd |-> rd]
NegInf == [kind |-> "-inf", rn |-> 1, rd |-> 1]
NaN == [kind |-> "NaN", rn |-> 0, rd |-> 1]
Lit_0_95 == Fin(1, 400)      \* 0.95 = 1 - sqrt(1/400)
Lit_0_1 == Fin(81, 100)      \* 0.1  = 1 - sqrt(81/100)

\* a <= b for two non-NaN values
ValLeq(a, b) ==
    \/ a.kind = "-inf"
    \/ a.kind = "fin" /\ b.kind = "fin" /\ a.rn * b.rd >= b.rn * a.rd

\* Math.min / Math.max: NaN if either argument is NaN.
MathMin(a, b) ==
    IF a.kind = "NaN" \/ b.kind = "NaN" THEN NaN
    ELSE IF ValLeq(a, b) THEN a ELSE b

MathMax(a, b) ==
    IF a.kind = "NaN" \/ b.kind = "NaN" THEN NaN
    ELSE IF ValLeq(a, b) THEN b ELSE a

\* 1 - sd / avgCycle in IEEE arithmetic (avgCycle >= 0 here: the lengths are
\* differences of starts sorted ascending).
OneMinusRatio(sd, avgCycle) ==
    IF avgCycle.num = 0
    THEN (IF sd.sq_num = 0 THEN NaN ELSE NegInf)      \* 0/0, x/0
    ELSE Fin(sd.sq_num * avgCycle.den * avgCycle.den,
             sd.sq_den * avgCycle.num * avgCycle.num)

Confidence(sd, avgCycle) ==
    MathMax(Lit_0_1, MathMin(Lit_0_95, OneMinusRatio(sd, avgCycle)))

(***************************************************************************)
(* Cycle reconstructor: rebuildCycles (prediction.js)                      *)
(***************************************************************************)
RECURSIVE InsertStr(_, _)
InsertStr(x, sorted) ==
    IF Len(sorted) = 0 THEN <<x>>
    ELSE IF StrLess(x, Head(sorted)) THEN <<x>> \o sorted
    ELSE <<Head(sorted)>> \o InsertStr(x, Tail(sorted))

RECURSIVE SortStrings(_)
\* Array.prototype.sort() without a comparator: ascending string order.
SortStrings(s) ==
    IF Len(s) = 0 THEN <<>>
    ELSE InsertStr(s[Len(s)], SortStrings(SubSeq(s, 1, Len(s) - 1)))

RECURSIVE Dedupe(_)
\* [...new Set(arr)]: first occurrences, in order.
Dedupe(s) ==
    IF Len(s) = 0 THEN <<>>
    ELSE LET rest == Dedupe(SubSeq(s, 1, Len(s) - 1))
         IN IF \E i \in 1..Len(rest) : rest[i] = s[Len(s)] THEN rest
            ELSE Append(rest, s[Len(s)])

\* keeping every log, whatever its flow level
HasFlowAlways(l) == TRUE
\* l.flow_level !== 'None'
HasFlow(l) == l.flow_level # "None"

\* the flow dates in log order, without the sort()
FlowDaysUnsorted(logs) ==
    LET kept == SelectSeq(logs, HasFlow)
    IN [i \in 1..Len(kept) |-> kept[i].date]
\* dayLogs.filter(...).map(l => l.date).sort()
FlowDays(logs) ==
    LET kept == SelectSeq(logs, HasFlow)
    IN SortStrings([i \in 1..Len(kept) |-> kept[i].date])

\* gap <= 2: the next flow day extends the current run
SameRunStrict(gap) == gap < 2
SameRunAdjacent(gap) == gap <= 1
SameRun(gap) == gap <= 2

\* daysAgo <= 2: the last run stays open
LeaveOpen(daysAgo) == daysAgo <= 2

RECURSIVE RunLoop(_, _, _, _, _)
\* the for loop: state (cycles, start, end) after indices i..length-1
RunLoop(unique, i, acc, start, end) ==
    IF i > Len(unique) THEN [cycles |-> acc, start |-> start, end |-> end]
    ELSE IF SameRun(daysBetween(end, unique[i]))
         THEN RunLoop(unique, i + 1, acc, start, unique[i])
         ELSE RunLoop(unique, i + 1,
                      Append(acc, [start_date |-> start, end_date |-> end]),
                      unique[i], unique[i])

rebuildCycles(logs, now) ==
    LET unique == Dedupe(FlowDays(logs))
    IN IF Len(unique) = 0 THEN <<>>
       ELSE LET r == RunLoop(unique, 2, <<>>, unique[1], unique[1])
                daysAgo == daysBetween(r.end, now)
            IN Append(r.cycles,
                      [start_date |-> r.start,
                       end_date |-> IF LeaveOpen(daysAgo) THEN Null ELSE r.end])

(***************************************************************************)
(* Prediction engine: predict, fertilityWindow (prediction.js)             *)
(***************************************************************************)
IsCompleted(c) == c.end_date # Null

RECURSIVE InsertCycle(_, _)
InsertCycle(c, sorted) ==
    IF Len(sorted) = 0 THEN <<c>>
    ELSE IF StrLess(c.start_date, Head(sorted).start_date) THEN <<c>> \o sorted
    ELSE <<Head(sorted)>> \o InsertCycle(c, Tail(sorted))

RECURSIVE SortByStart(_)
\* sort((a, b) => a.start_date.localeCompare(b.start_date)): stable, ascending
SortByStart(s) ==
    IF Len(s) = 0 THEN <<>>
    ELSE InsertCycle(s[Len(s)], SortByStart(SubSeq(s, 1, Len(s) - 1)))

Completed(cs) == SortByStart(SelectSeq(cs, IsCompleted))

\* completed.length < 2
TooFewBelowThree(completed) == Len(completed) < 3
TooFew(completed) == Len(completed) < 2

\* completed.slice(-6)
RecentAll(completed) == completed
Recent(completed) == SubSeq(completed, Max2(1, Len(completed) - 5), Len(completed))

CycleLengths(recent) ==
    [i \in 1..(Len(recent) - 1) |->
        daysBetween(recent[i].start_date, recent[i + 1].start_date)]

PeriodLengths(recent) ==
    [i \in 1..Len(recent) |-> daysBetween(recent[i].start_date, recent[i].end_date) + 1]

\* Math.max(0, Math.round(avgPeriod) - 1)
PeriodSpanExclusive(avgPeriod) == Max2(0, MathRound(avgPeriod))
PeriodSpan(avgPeriod) == Max2(0, MathRound(avgPeriod) - 1)

\* addDays(lastStart, Math.round(avgCycle))
PredictedStart(lastStart, avgCycle) == addDays(lastStart, MathRound(avgCycle))

predict(cs) ==
    LET completed == Completed(cs)
    IN IF TooFew(completed) THEN Null
       ELSE LET recent == Recent(completed)
                cycleLengths == CycleLengths(recent)
            IN IF Len(cycleLengths) = 0 THEN Null
               ELSE LET periodLengths == PeriodLengths(recent)
                        avgCycle == mean(cycleLengths)
                        avgPeriod == IF Len(periodLengths) # 0 THEN mean(periodLengths)
                                     ELSE [num |-> 5, den |-> 1]
                        lastStart == completed[Len(completed)].start_date
                        predictedStart == PredictedStart(lastStart, avgCycle)
                        predictedEnd == addDays(predictedStart, PeriodSpan(avgPeriod))
                        sd == stdDev(cycleLengths)
                    IN <<[predicted_start |-> predictedStart,
                          predicted_end |-> predictedEnd,
                          confidence |-> Confidence(sd, avgCycle)]>>

\* addDays(pred.predicted_start, -14)
OvulationDayLate(predStart) == addDays(predStart, -13)
OvulationDay(predStart) == addDays(predStart, -14)

fertilityWindow(cs) ==
    LET pred == predict(cs)
    IN IF pred = Null THEN Null
       ELSE LET ovulationDay == OvulationDay(pred[1].predicted_start)
                fertileStart == addDays(ovulationDay, -5)
                peakStart == addDays(ovulationDay, -2)
            IN <<[fertile_start |-> fertileStart,
                  fertile_end |-> ovulationDay,
                  ovulation_day |-> ovulationDay,
                  peak_start |-> peakStart,
                  peak_end |-> ovulationDay]>>

(***************************************************************************)
(* Statistics: cycleStats (prediction.js)                                  *)
(***************************************************************************)
RECURSIVE SeqMin(_)
\* Math.min(...arr) for a non-empty array of integers
SeqMin(arr) ==
    IF Len(arr) = 1 THEN arr[1]
    ELSE LET m == SeqMin(Tail(arr)) IN IF Head(arr) <= m THEN Head(arr) ELSE m

RECURSIVE SeqMax(_)
\* Math.max(...arr) for a non-empty array of integers
SeqMax(arr) ==
    IF Len(arr) = 1 THEN arr[1]
    ELSE LET m == SeqMax(Tail(arr)) IN IF Head(arr) >= m THEN Head(arr) ELSE m

\* what a call returned, or the TypeError a property read of undefined throws
StatsReturned(r) == [ok |-> TRUE, value |-> <<r>>, error |-> ""]
StatsThrew == [ok |-> FALSE, value |-> <<>>, error |-> "TypeError"]

\* !completed.length
NoCompletedNever(completed) == FALSE
NoCompleted(completed) == Len(completed) = 0

\* cycleLengths.length ? mean(cycleLengths) : null
HasDeltasAlways(cycleLengths) == TRUE
HasDeltas(cycleLengths) == Len(cycleLengths) # 0

\* for (let i = 1; i < completed.length; i++) push(daysBetween(prev, cur))
AllCycleLengths(completed) ==
    [i \in 1..(Len(completed) - 1) |->
        daysBetween(completed[i].start_date, completed[i + 1].start_date)]

cycleStats(cs) ==
    LET completed == Completed(cs)
    IN IF NoCompleted(completed)
       THEN StatsReturned([total_cycles |-> 0,
                           avg_cycle_length |-> Null,
                           avg_period_length |-> Null,
                           shortest_cycle |-> Null,
                           longest_cycle |-> Null,
                           last_period_start |-> Null,
                           last_period_end |-> Null])
       ELSE IF Len(completed) = 0 THEN StatsThrew    \* last is undefined
       ELSE LET periodLengths == PeriodLengths(completed)
                cycleLengths == AllCycleLengths(completed)
                last == completed[Len(completed)]
            IN StatsReturned(
                 [total_cycles |-> Len(completed),
                  avg_cycle_length |->
                      IF HasDeltas(cycleLengths) THEN <<mean(cycleLengths)>> ELSE Null,
                  avg_period_length |->
                      IF Len(periodLengths) # 0 THEN <<mean(periodLengths)>> ELSE Null,
                  shortest_cycle |->
                      IF Len(cycleLengths) # 0 THEN <<SeqMin(cycleLengths)>> ELSE Null,
                  longest_cycle |->
                      IF Len(cycleLengths) # 0 THEN <<SeqMax(cycleLengths)>> ELSE Null,
                  last_period_start |-> last.start_date,
                  last_period_end |-> last.end_date])

(***************************************************************************)
(* Vault codec: encrypt, decrypt (crypto.js)                               *)
(*                                                                         *)
(* Bytes are 0..255.  A passphrase is the number of the string typed.      *)
(* PBKDF2 and AES-GCM are Web Crypto primitives; they are modelled as an   *)
(* ideal cipher: the derived key is the pair (passphrase, salt), the       *)
(* keystream and the tag of two keys that differ in the passphrase differ  *)
(* at every byte.  The tag check of a wrong key can still pass when the    *)
(* caller of decrypt says so (collide): the collision the marker guards.   *)
(***************************************************************************)
SALT_LEN == 32
IV_LEN == 12
TAG_LEN == 16
MAGIC == <<67, 89, 75, 69, 76, 95, 86, 49>>     \* "CYKEL_V1"

CorruptData == "Invalid data format"
WrongPassphrase == "Wrong passphrase"

deriveKey(pass, salt) == [pass |-> pass, salt |-> salt]

KeyStream(key, iv, i) == (16 * key.pass + SumSeq(key.salt) + SumSeq(iv) + i) % 256

GcmTag(key, iv, body) ==
    [j \in 1..TAG_LEN |->
        (16 * key.pass + SumSeq(key.salt) + SumSeq(iv) + SumSeq(body) + j) % 256]

\* crypto.subtle.encrypt({name: 'AES-GCM', iv}, key, payload): body || tag
AesGcmEncrypt(key, iv, payload) ==
    LET body == [i \in 1..Len(payload) |-> (payload[i] + KeyStream(key, iv, i)) % 256]
    IN body \o GcmTag(key, iv, body)

\* crypto.subtle.decrypt: <<bytes>>, or Null for the OperationError it throws
AesGcmDecrypt(key, iv, ciphertext, collide) ==
    IF Len(ciphertext) < TAG_LEN THEN Null
    ELSE LET n == Len(ciphertext) - TAG_LEN
             body == SubSeq(ciphertext, 1, n)
             tag == SubSeq(ciphertext, n + 1, Len(ciphertext))
         IN IF tag = GcmTag(key, iv, body) \/ collide
            THEN <<[i \in 1..n |-> (body[i] - KeyStream(key, iv, i) + 256) % 256]>>
            ELSE Null

encrypt(pass, bytes, salt, iv) ==
    LET key == deriveKey(pass, salt)
        payload == MAGIC \o bytes
        ciphertext == AesGcmEncrypt(key, iv, payload)
    IN salt \o iv \o ciphertext

\* encrypted.length < SALT_LEN + IV_LEN + MAGIC.length
TooShortHeaderOnly(encrypted) == Len(encrypted) < SALT_LEN + IV_LEN
TooShort(encrypted) == Len(encrypted) < SALT_LEN + IV_LEN + Len(MAGIC)

\* the marker loop: some i with decrypted[i] !== MAGIC[i]
MagicMismatchNever(decrypted) == FALSE
MagicMismatch(decrypted) ==
    \E i \in 1..Len(MAGIC) : i > Len(decrypted) \/ decrypted[i] # MAGIC[i]

\* decrypted.slice(MAGIC.length)
StripMagicShort(decrypted) == SubSeq(decrypted, Len(MAGIC), Len(decrypted))
StripMagic(decrypted) == SubSeq(decrypted, Len(MAGIC) + 1, Len(decrypted))

Thrown(message, where) == [ok |-> FALSE, value |-> <<>>, error |-> message, at |-> where]
Returned(bytes) == [ok |-> TRUE, value |-> bytes, error |-> "", at |-> "return"]

decrypt(pass, encrypted, collide) ==
    IF TooShort(encrypted) THEN Thrown("Invalid data format", "length")
    ELSE LET salt == SubSeq(encrypted, 1, SALT_LEN)
             iv == SubSeq(encrypted, SALT_LEN + 1, SALT_LEN + IV_LEN)
             ciphertext == SubSeq(encrypted, SALT_LEN + IV_LEN + 1, Len(encrypted))
             key == deriveKey(pass, salt)
             decrypted == AesGcmDecrypt(key, iv, ciphertext, collide)
         IN IF decrypted = Null THEN Thrown("Wrong passphrase", "aead")
            ELSE IF MagicMismatch(decrypted[1]) THEN Thrown("Wrong passphrase", "magic")
            ELSE Returned(StripMagic(decrypted[1]))

(***************************************************************************)
(* Bounds and input sets                                                   *)
(***************************************************************************)
NumPassphrases == 2
MaxPlainLen == 2
MaxLogs == 3
MaxCycles == 7

Passphrases == 1..NumPassphrases
PlainBytes == {0, 67}
Plaintexts == UNION {[1..k -> PlainBytes] : k \in 0..MaxPlainLen}
Salts == {[i \in 1..SALT_LEN |-> (b * i) % 256] : b \in {3, 250}}
Ivs == {[i \in 1..IV_LEN |-> (b + i) % 256] : b \in {0, 200}}

\* a week across the end of February of a leap year
LogDates == {<<2024, 2, 27>>, <<2024, 2, 28>>, <<2024, 2, 29>>, <<2024, 3, 1>>,
             <<2024, 3, 2>>, <<2024, 3, 3>>, <<2024, 3, 4>>}
FlowLevels == {"None", "Medium"}

\* three closed cycles starting 28 and 29 days apart, and one open cycle
CycleChoices ==
    {[start_date |-> <<2024, 1, 1>>,  end_date |-> <<2024, 1, 5>>],
     [start_date |-> <<2024, 1, 29>>, end_date |-> <<2024, 2, 3>>],
     [start_date |-> <<2024, 2, 27>>, end_date |-> <<2024, 3, 1>>],
     [start_date |-> <<2024, 3, 26>>, end_date |-> Null]}

(***************************************************************************)
(* Initial values                                                          *)
(***************************************************************************)
NoResult == [ok |-> FALSE, value |-> <<>>, error |-> "", at |-> "none"]

(***************************************************************************)
(* SpecCrypto                                                              *)
(***************************************************************************)
Encrypt(P, B, salt, iv) ==
    /\ cryptoPc = "idle"
    /\ encPass' = P
    /\ plaintext' = B
    /\ envelope' = encrypt(P, B, salt, iv)
    /\ intact' = TRUE
    /\ cryptoPc' = "sealed"
    /\ UNCHANGED <<decPass, decResult, rebuildVars, predictVars, appVars>>

\* the stored blob is cut short before it is read back
Truncate(n) ==
    /\ cryptoPc = "sealed"
    /\ intact
    /\ n < Len(envelope)
    /\ envelope' = SubSeq(envelope, 1, n)
    /\ intact' = FALSE
    /\ UNCHANGED <<cryptoPc, encPass, plaintext, decPass, decResult, rebuildVars, predictVars, appVars>>

\* one byte of the stored blob changes: in the salt, the iv, the body or the tag
CorruptAt == {1, SALT_LEN + 1, SALT_LEN + IV_LEN + 1, SALT_LEN + IV_LEN + Len(MAGIC) + 1}

Corrupt(i) ==
    /\ cryptoPc = "sealed"
    /\ intact
    /\ i <= Len(envelope)
    /\ envelope' = [envelope EXCEPT ![i] = (@ + 1) % 256]
    /\ intact' = FALSE
    /\ UNCHANGED <<cryptoPc, encPass, plaintext, decPass, decResult, rebuildVars, predictVars, appVars>>

Decrypt(P, collide) ==
    /\ cryptoPc = "sealed"
    /\ decPass' = P
    /\ decResult' = decrypt(P, envelope, collide)
    /\ cryptoPc' = "opened"
    /\ UNCHANGED <<encPass, plaintext, envelope, intact, rebuildVars, predictVars, appVars>>

CryptoNext ==
    \/ \E P \in Passphrases, B \in Plaintexts, salt \in Salts, iv \in Ivs :
          Encrypt(P, B, salt, iv)
    \/ \E n \in 0..(SALT_LEN + IV_LEN + Len(MAGIC) + MaxPlainLen + TAG_LEN) : Truncate(n)
    \/ \E i \in CorruptAt : Corrupt(i)
    \/ \E P \in Passphrases, collide \in BOOLEAN : Decrypt(P, collide)

CryptoInit ==
    /\ cryptoPc = "idle"
    /\ encPass = 0
    /\ plaintext = <<>>
    /\ envelope = <<>>
    /\ intact = FALSE
    /\ decPass = 0
    /\ decResult = NoResult
    /\ dayLogs = <<>>
    /\ today = <<2024, 3, 1>>
    /\ rebuilt = <<>>
    /\ cycles = <<>>
    /\ prediction = Null
    /\ fertility = Null
    /\ stats = cycleStats(<<>>)
    /\ passphrase = Null
    /\ appData = Null
    /\ screen = "none"
    /\ selectedDate = Null
    /\ selectedFlow = "None"
    /\ selectedSymptoms = <<>>
    /\ daylogNotes = ""
    /\ autoLockTimer = Null
    /\ autoLockMinutes = 5
    /\ showFertility = FALSE
    /\ store = Null
    /\ loading = Null
    /\ saves = <<>>
    /\ puts = <<>>
    /\ wipes = 0
    /\ session = "locked"
    /\ events = 0
    /\ putFailures = 0
    /\ lastSerialized = Null
    /\ unlockResult = "none"
    /\ loadResult = NoResult
    /\ atLock = Null

SpecCrypto == CryptoInit /\ [][CryptoNext]_vars

(***************************************************************************)
(* SpecRebuild                                                             *)
(***************************************************************************)
LogDay(date, flow) ==
    /\ Len(dayLogs) < MaxLogs
    /\ dayLogs' = Append(dayLogs, [date |-> date, flow_level |-> flow, notes |-> ""])
    /\ rebuilt' = rebuildCycles(dayLogs', today)
    \* the rebuilt list is what the app hands to the prediction engine
    /\ cycles' = rebuilt'
    /\ prediction' = predict(cycles')
    /\ fertility' = fertilityWindow(cycles')
    /\ stats' = cycleStats(cycles')
    /\ UNCHANGED <<today, cryptoVars, appVars>>

RebuildNext == \E date \in LogDates, flow \in FlowLevels : LogDay(date, flow)

RebuildInit ==
    /\ cryptoPc = "idle"
    /\ encPass = 0
    /\ plaintext = <<>>
    /\ envelope = <<>>
    /\ intact = FALSE
    /\ decPass = 0
    /\ decResult = NoResult
    /\ dayLogs = <<>>
    /\ today \in LogDates
    /\ rebuilt = <<>>
    /\ cycles = <<>>
    /\ prediction = Null
    /\ fertility = Null
    /\ stats = cycleStats(<<>>)
    /\ passphrase = Null
    /\ appData = Null
    /\ screen = "none"
    /\ selectedDate = Null
    /\ selectedFlow = "None"
    /\ selectedSymptoms = <<>>
    /\ daylogNotes = ""
    /\ autoLockTimer = Null
    /\ autoLockMinutes = 5
    /\ showFertility = FALSE
    /\ store = Null
    /\ loading = Null
    /\ saves = <<>>
    /\ puts = <<>>
    /\ wipes = 0
    /\ session = "locked"
    /\ events = 0
    /\ putFailures = 0
    /\ lastSerialized = Null
    /\ unlockResult = "none"
    /\ loadResult = NoResult
    /\ atLock = Null

SpecRebuild == RebuildInit /\ [][RebuildNext]_vars

(***************************************************************************)
(* SpecPredict                                                             *)
(***************************************************************************)
AddCycle(c) ==
    /\ Len(cycles) < MaxCycles
    /\ cycles' = Append(cycles, c)
    /\ prediction' = predict(cycles')
    /\ fertility' = fertilityWindow(cycles')
    /\ stats' = cycleStats(cycles')
    /\ UNCHANGED <<cryptoVars, rebuildVars, appVars>>

PredictNext == \E c \in CycleChoices : AddCycle(c)

PredictInit ==
    /\ cryptoPc = "idle"
    /\ encPass = 0
    /\ plaintext = <<>>
    /\ envelope = <<>>
    /\ intact = FALSE
    /\ decPass = 0
    /\ decResult = NoResult
    /\ dayLogs = <<>>
    /\ today = <<2024, 3, 1>>
    /\ rebuilt = <<>>
    /\ cycles = <<>>
    /\ prediction = Null
    /\ fertility = Null
    /\ stats = cycleStats(<<>>)
    /\ passphrase = Null
    /\ appData = Null
    /\ screen = "none"
    /\ selectedDate = Null
    /\ selectedFlow = "None"
    /\ selectedSymptoms = <<>>
    /\ daylogNotes = ""
    /\ autoLockTimer = Null
    /\ autoLockMinutes = 5
    /\ showFertility = FALSE
    /\ store = Null
    /\ loading = Null
    /\ saves = <<>>
    /\ puts = <<>>
    /\ wipes = 0
    /\ session = "locked"
    /\ events = 0
    /\ putFailures = 0
    /\ lastSerialized = Null
    /\ unlockResult = "none"
    /\ loadResult = NoResult
    /\ atLock = Null

SpecPredict == PredictInit /\ [][PredictNext]_vars

(***************************************************************************)
(* SpecPredictTies: predict over lists in which two closed cycles share a  *)
(* start date and differ in their end date                                 *)
(***************************************************************************)
TieChoices ==
    {[start_date |-> <<2024, 1, 1>>,  end_date |-> <<2024, 1, 5>>],
     [start_date |-> <<2024, 1, 1>>,  end_date |-> <<2024, 1, 2>>],
     [start_date |-> <<2024, 1, 29>>, end_date |-> <<2024, 2, 3>>],
     [start_date |-> <<2024, 3, 26>>, end_date |-> Null]}

TiesNext == \E c \in TieChoices : AddCycle(c)

SpecPredictTies == PredictInit /\ [][TiesNext]_vars

(***************************************************************************)
(* The app session (app.js) over the vault store (storage.js)              *)
(*                                                                         *)
(* Every handler runs to its next await in one step; what it awaits        *)
(* (encryption, an IndexedDB request) finishes in a later step, after      *)
(* which the rest of the handler runs.  The codec is used through what     *)
(* SpecCrypto establishes: a blob opens under the passphrase it was        *)
(* sealed with and under no other.                                         *)
(***************************************************************************)
MaxEvents == 5
MaxPutFailures == 1
MaxDayAdvances == 1
MinuteSpan == 1

AppToday == <<2024, 3, 1>>
AppDates == {<<2024, 2, 28>>, <<2024, 3, 1>>}
NoteTexts == {"", "tired"}
SymptomTypes == {"Cramps", "Headache"}

NoVaultFound == "No data found"

defaultAppData ==
    [cycles |-> <<>>,
     day_logs |-> <<>>,
     symptoms |-> <<>>,
     settings |-> [auto_lock_minutes |-> 5, show_fertility |-> FALSE]]

\* JSON.stringify(appData): the members of the object, in insertion order
JsonStringify(d) ==
    <<"cycles", d.cycles, "day_logs", d.day_logs,
      "symptoms", d.symptoms, "settings", d.settings>>

\* JSON.parse(text)
JsonParse(text) ==
    [cycles |-> text[2], day_logs |-> text[4], symptoms |-> text[6], settings |-> text[8]]

\* encrypt(passphrase, json): what storage.save puts into the slot
Sealed(pass, text) == [key |-> pass, text |-> text]

\* decrypt(passphrase, new Uint8Array(encrypted)); an absent value makes an
\* empty array, which is too short for a header
Opened(pass, slot) ==
    IF slot = Null THEN Thrown(CorruptData, "length")
    ELSE IF slot[1].key # pass THEN Thrown(WrongPassphrase, "aead")
    ELSE Returned(slot[1].text)

\* if (!encrypted)
EmptySlotNever(slot) == FALSE
EmptySlot(slot) == slot = Null

\* storage.load(passphrase), from the value dbGet resolved with
load(pass, slot) ==
    IF EmptySlot(slot) THEN Thrown(NoVaultFound, "store")
    ELSE LET decrypted == Opened(pass, slot)
         IN IF decrypted.ok THEN Returned(<<JsonParse(decrypted.value)>>)
            ELSE decrypted

\* appData.day_logs.find(l => l.date === selectedDate): its index, or 0
FindLog(logs, date) ==
    IF \E i \in 1..Len(logs) : logs[i].date = date
    THEN CHOOSE i \in 1..Len(logs) :
            logs[i].date = date /\ \A j \in 1..(i - 1) : logs[j].date # date
    ELSE 0

\* pushing without looking for an existing entry
UpsertAlwaysPush(logs, date, flow, notes) ==
    Append(logs, [date |-> date, flow_level |-> flow, notes |-> notes])
\* the upsert of the day log
Upsert(logs, date, flow, notes) ==
    LET i == FindLog(logs, date)
        entry == [date |-> date, flow_level |-> flow, notes |-> notes]
    IN IF i # 0 THEN [logs EXCEPT ![i] = entry] ELSE Append(logs, entry)

\* pushing the selected symptoms without filtering out the old ones
ReplaceSymptomsKeepOld(symptoms, date, selected) ==
    symptoms \o [i \in 1..Len(selected) |->
                    [date |-> date, symptom_type |-> selected[i], severity |-> 2]]
\* filter(s => s.date !== selectedDate), then one push per selected symptom
ReplaceSymptoms(symptoms, date, selected) ==
    LET OtherDate(sy) == sy.date # date
    IN SelectSeq(symptoms, OtherDate)
         \o [i \in 1..Len(selected) |->
                [date |-> date, symptom_type |-> selected[i], severity |-> 2]]

\* the types of the symptoms rendered for a date, in list order, once each
SymptomsOf(symptoms, date) ==
    LET OnDate(sy) == sy.date = date
        onDate == SelectSeq(symptoms, OnDate)
    IN Dedupe([i \in 1..Len(onDate) |-> onDate[i].symptom_type])

\* selectedSymptoms.has(sym) ? delete(sym) : add(sym)
ToggleIn(selected, sym) ==
    LET Other(x) == x # sym
    IN IF \E i \in 1..Len(selected) : selected[i] = sym
       THEN SelectSeq(selected, Other)
       ELSE Append(selected, sym)

RemoveAt(q, i) == SubSeq(q, 1, i - 1) \o SubSeq(q, i + 1, Len(q))

\* what the app actions leave alone
libVars == <<cryptoVars, dayLogs, rebuilt, predictVars>>

\* a user or clock event, within the budget of the run
Event == events < MaxEvents /\ events' = events + 1

\* saveData(): if (!passphrase || !appData) return
SaveSkipped(pass, data) == pass = Null \/ data = Null

SaveTask(pass, data, then) ==
    [blob |-> Sealed(pass[1], JsonStringify(data[1])), then |-> then]

\* the queue of storage.save calls after saveData() was called
Enqueue(q, pass, data, then) ==
    IF SaveSkipped(pass, data) THEN q ELSE Append(q, SaveTask(pass, data, then))

Serialized(pass, data) ==
    IF SaveSkipped(pass, data) THEN lastSerialized
    ELSE <<Sealed(pass[1], JsonStringify(data[1]))>>

InFlight(then) ==
    \/ \E i \in 1..Len(saves) : saves[i].then = then
    \/ \E i \in 1..Len(puts) : puts[i].then = then

\* btnSetup.disabled / btnUnlock.disabled while their handler is suspended
SetupBusy == InFlight("setup")
UnlockBusy == loading # Null \/ InFlight("unlock")

\* settings.auto_lock_minutes || 5
MinutesOr5(d) == IF d.settings.auto_lock_minutes = 0 THEN 5 ELSE d.settings.auto_lock_minutes

\* init(): showScreen(exists ? 'unlock' : 'setup')
InitDone ==
    /\ screen = "none"
    /\ screen' = IF store # Null THEN "unlock" ELSE "setup"
    /\ UNCHANGED <<passphrase, appData, formVars, autoLockTimer, autoLockMinutes,
                   showFertility, store, asyncVars, historyVars, today, libVars>>

\* skipping setTimeout leaves no timer pending
ResetTimerNone(minutes) == Null
\* resetAutoLock(): clearTimeout, setTimeout(doLock, autoLockMinutes * 60 * 1000)
ResetTimer(minutes) == <<minutes>>

\* pointerdown / keydown anywhere in the document
UserActivity ==
    /\ screen # "none"
    /\ Event
    /\ autoLockTimer' = ResetTimer(autoLockMinutes)
    /\ UNCHANGED <<passphrase, appData, screen, formVars, autoLockMinutes, showFertility,
                   store, asyncVars, session, putFailures, lastSerialized, unlockResult,
                   loadResult, atLock, today, libVars>>

\* btn-setup click, up to await saveData()
SetupClick(P) ==
    /\ screen = "setup"
    /\ ~SetupBusy
    /\ Event
    /\ passphrase' = <<P>>
    /\ appData' = <<defaultAppData>>
    /\ saves' = Enqueue(saves, passphrase', appData', "setup")
    /\ lastSerialized' = Serialized(passphrase', appData')
    /\ UNCHANGED <<screen, formVars, autoLockTimer, autoLockMinutes, showFertility, store,
                   loading, puts, wipes, session, putFailures, unlockResult, loadResult,
                   atLock, today, libVars>>

\* btn-unlock click, up to the dbGet of storage.load
UnlockClick(P) ==
    /\ screen = "unlock"
    /\ ~UnlockBusy
    /\ Event
    /\ loading' = <<[pass |-> P, stage |-> "get", slot |-> Null]>>
    /\ unlockResult' = "pending"
    /\ UNCHANGED <<passphrase, appData, screen, formVars, autoLockTimer, autoLockMinutes,
                   showFertility, store, saves, puts, wipes, session, putFailures,
                   lastSerialized, loadResult, atLock, today, libVars>>

\* storage.load: dbGet resolves; without a blob load throws and the handler
\* lands in its catch block
LoadGet ==
    /\ loading # Null
    /\ loading[1].stage = "get"
    /\ IF EmptySlot(store)
       THEN /\ loading' = Null
            /\ loadResult' = load(loading[1].pass, store)
            /\ unlockResult' = "failed"
       ELSE /\ loading' = <<[loading[1] EXCEPT !.stage = "decrypt", !.slot = store]>>
            /\ UNCHANGED <<loadResult, unlockResult>>
    /\ UNCHANGED <<passphrase, appData, screen, formVars, autoLockTimer, autoLockMinutes,
                   showFertility, store, saves, puts, wipes, session, events, putFailures,
                   lastSerialized, atLock, today, libVars>>

\* storage.load: decrypt settles.  On success the handler stores the data,
\* rebuilds the cycles and calls saveData(); on failure it lands in catch.
LoadDecrypted ==
    /\ loading # Null
    /\ loading[1].stage = "decrypt"
    /\ LET res == load(loading[1].pass, loading[1].slot)
       IN /\ loadResult' = res
          /\ loading' = Null
          /\ IF res.ok
             THEN /\ appData' = <<[res.value[1] EXCEPT
                                     !.cycles = rebuildCycles(res.value[1].day_logs, today)]>>
                  /\ passphrase' = <<loading[1].pass>>
                  /\ saves' = Enqueue(saves, passphrase', appData', "unlock")
                  /\ lastSerialized' = Serialized(passphrase', appData')
                  /\ UNCHANGED unlockResult
             ELSE /\ unlockResult' = "failed"
                  /\ UNCHANGED <<passphrase, appData, saves, lastSerialized>>
    /\ UNCHANGED <<screen, formVars, autoLockTimer, autoLockMinutes, showFertility, store,
                   puts, wipes, session, events, putFailures, atLock, today, libVars>>

\* storage.save: encrypt settles for one of the calls in flight; it goes on
\* to openDB and dbPut
SaveEncrypted(i) ==
    /\ i \in 1..Len(saves)
    /\ puts' = Append(puts, saves[i])
    /\ saves' = RemoveAt(saves, i)
    /\ UNCHANGED <<passphrase, appData, screen, formVars, autoLockTimer, autoLockMinutes,
                   showFertility, store, loading, wipes, historyVars, today, libVars>>

\* storage.save: dbPut succeeds, save() resolves and the handler that awaited
\* saveData() runs on: enterApp() after setup and unlock (a TypeError on
\* appData.settings lands in the catch block), the calendar after a day log
SavePutDone ==
    /\ puts # <<>>
    /\ Head(puts).then # "wipe"
    /\ LET t == Head(puts)
           enters == t.then \in {"setup", "unlock"} /\ appData # Null
           throws == t.then \in {"setup", "unlock"} /\ appData = Null
       IN /\ store' = <<t.blob>>
          /\ puts' = Tail(puts)
          /\ passphrase' = IF throws /\ t.then = "setup" THEN Null ELSE passphrase
          /\ appData' = IF throws /\ t.then = "setup" THEN Null ELSE appData
          /\ screen' = IF enters \/ t.then = "saveday" THEN "calendar" ELSE screen
          /\ autoLockMinutes' = IF enters THEN MinutesOr5(appData[1]) ELSE autoLockMinutes
          /\ showFertility' =
                IF enters THEN appData[1].settings.show_fertility ELSE showFertility
          /\ autoLockTimer' = IF enters THEN ResetTimer(autoLockMinutes') ELSE autoLockTimer
          /\ session' = IF enters THEN "unlocked" ELSE session
          /\ unlockResult' =
                IF t.then = "unlock" THEN (IF enters THEN "ok" ELSE "failed")
                ELSE unlockResult
    /\ UNCHANGED <<formVars, loading, saves, wipes, events, putFailures, lastSerialized,
                   loadResult, atLock, today, libVars>>

\* the setup handler's catch block: passphrase = null; appData = null
SetupCatch(then) == then = "setup"

\* storage.save: dbPut rejects (req.onerror).  Setup and unlock land in their
\* catch blocks; the other handlers end with an unhandled rejection.
SavePutFailed ==
    /\ puts # <<>>
    /\ Head(puts).then # "wipe"
    /\ putFailures < MaxPutFailures
    /\ putFailures' = putFailures + 1
    /\ puts' = Tail(puts)
    /\ passphrase' = IF SetupCatch(Head(puts).then) THEN Null ELSE passphrase
    /\ appData' = IF SetupCatch(Head(puts).then) THEN Null ELSE appData
    /\ unlockResult' = IF Head(puts).then = "unlock" THEN "failed" ELSE unlockResult
    /\ UNCHANGED <<screen, formVars, autoLockTimer, autoLockMinutes, showFertility, store,
                   loading, saves, wipes, session, events, lastSerialized, loadResult,
                   atLock, today, libVars>>

\* doLock()
doLock ==
    /\ autoLockTimer' = Null
    /\ passphrase' = Null
    /\ appData' = Null
    /\ screen' = "unlock"
    /\ session' = "locked"
    /\ atLock' = IF session = "unlocked" THEN appData ELSE atLock
    /\ UNCHANGED <<formVars, autoLockMinutes, showFertility, store, asyncVars, putFailures,
                   lastSerialized, unlockResult, loadResult, today, libVars>>

\* btn-lock click
LockClick == screen = "settings" /\ Event /\ doLock

\* the auto-lock timeout expires
TimerFires == autoLockTimer # Null /\ doLock /\ UNCHANGED events

\* visibilitychange: document.hidden && passphrase
PageHidden == passphrase # Null /\ Event /\ doLock

\* a calendar cell is clicked: openDayLog(dateStr, log, symptoms of the date)
OpenDayLog(date) ==
    /\ screen = "calendar"
    /\ Event
    /\ LET logs == IF appData = Null THEN <<>> ELSE appData[1].day_logs
           syms == IF appData = Null THEN <<>> ELSE appData[1].symptoms
           i == FindLog(logs, date)
       IN /\ selectedDate' = date
          /\ selectedFlow' = IF i # 0 THEN logs[i].flow_level ELSE "None"
          /\ selectedSymptoms' = SymptomsOf(syms, date)
          /\ daylogNotes' = IF i # 0 THEN logs[i].notes ELSE ""
    /\ screen' = "daylog"
    /\ UNCHANGED <<passphrase, appData, autoLockTimer, autoLockMinutes, showFertility, store,
                   asyncVars, session, putFailures, lastSerialized, unlockResult, loadResult,
                   atLock, today, libVars>>

\* a flow button is clicked
SelectFlow(flow) ==
    /\ screen = "daylog"
    /\ Event
    /\ selectedFlow' = flow
    /\ UNCHANGED <<passphrase, appData, screen, selectedDate, selectedSymptoms, daylogNotes,
                   autoLockTimer, autoLockMinutes, showFertility, store, asyncVars, session,
                   putFailures, lastSerialized, unlockResult, loadResult, atLock, today,
                   libVars>>

\* a symptom chip is clicked
ToggleSymptom(sym) ==
    /\ screen = "daylog"
    /\ Event
    /\ selectedSymptoms' = ToggleIn(selectedSymptoms, sym)
    /\ UNCHANGED <<passphrase, appData, screen, selectedDate, selectedFlow, daylogNotes,
                   autoLockTimer, autoLockMinutes, showFertility, store, asyncVars, session,
                   putFailures, lastSerialized, unlockResult, loadResult, atLock, today,
                   libVars>>

\* the notes field is edited
TypeNotes(text) ==
    /\ screen = "daylog"
    /\ Event
    /\ daylogNotes' = text
    /\ UNCHANGED <<passphrase, appData, screen, selectedDate, selectedFlow, selectedSymptoms,
                   autoLockTimer, autoLockMinutes, showFertility, store, asyncVars, session,
                   putFailures, lastSerialized, unlockResult, loadResult, atLock, today,
                   libVars>>

\* btn-save-day click, up to await saveData()
SaveDayClick ==
    /\ screen = "daylog"
    /\ selectedDate # Null
    /\ appData # Null
    /\ Event
    /\ LET logs == Upsert(appData[1].day_logs, selectedDate, selectedFlow, daylogNotes)
       IN appData' = <<[appData[1] EXCEPT
                          !.day_logs = logs,
                          !.symptoms = ReplaceSymptoms(@, selectedDate, selectedSymptoms),
                          !.cycles = rebuildCycles(logs, today)]>>
    /\ saves' = Enqueue(saves, passphrase, appData', "saveday")
    /\ lastSerialized' = Serialized(passphrase, appData')
    /\ screen' = IF SaveSkipped(passphrase, appData') THEN "calendar" ELSE screen
    /\ UNCHANGED <<passphrase, formVars, autoLockTimer, autoLockMinutes, showFertility, store,
                   loading, puts, wipes, session, putFailures, unlockResult, loadResult,
                   atLock, today, libVars>>

\* btn-back, btn-stats-back, btn-settings-back: showScreen('calendar')
BackToCalendar ==
    /\ screen \in {"daylog", "stats", "settings"}
    /\ Event
    /\ screen' = "calendar"
    /\ UNCHANGED <<passphrase, appData, formVars, autoLockTimer, autoLockMinutes,
                   showFertility, store, asyncVars, session, putFailures, lastSerialized,
                   unlockResult, loadResult, atLock, today, libVars>>

\* btn-stats click: if (!appData) return; showScreen('stats')
StatsClick ==
    /\ screen = "calendar"
    /\ appData # Null
    /\ Event
    /\ screen' = "stats"
    /\ UNCHANGED <<passphrase, appData, formVars, autoLockTimer, autoLockMinutes,
                   showFertility, store, asyncVars, session, putFailures, lastSerialized,
                   unlockResult, loadResult, atLock, today, libVars>>

\* btn-settings click
SettingsClick ==
    /\ screen = "calendar"
    /\ Event
    /\ screen' = "settings"
    /\ UNCHANGED <<passphrase, appData, formVars, autoLockTimer, autoLockMinutes,
                   showFertility, store, asyncVars, session, putFailures, lastSerialized,
                   unlockResult, loadResult, atLock, today, libVars>>

\* toggle-fertility change, up to await saveData()
ToggleFertility ==
    /\ screen = "settings"
    /\ Event
    /\ showFertility' = ~showFertility
    /\ appData' = IF appData = Null THEN Null
                  ELSE <<[appData[1] EXCEPT !.settings.show_fertility = showFertility']>>
    /\ saves' = Enqueue(saves, passphrase, appData', "none")
    /\ lastSerialized' = Serialized(passphrase, appData')
    /\ UNCHANGED <<passphrase, screen, formVars, autoLockTimer, autoLockMinutes, store,
                   loading, puts, wipes, session, putFailures, unlockResult, loadResult,
                   atLock, today, libVars>>

\* autolock-down (step = -1) and autolock-up (step = 1), up to await saveData()
AutolockStep(step) ==
    /\ screen = "settings"
    /\ IF step < 0 THEN autoLockMinutes > 1 /\ autoLockMinutes > 5 - MinuteSpan
       ELSE autoLockMinutes < 60 /\ autoLockMinutes < 5 + MinuteSpan
    /\ Event
    /\ autoLockMinutes' = autoLockMinutes + step
    /\ autoLockTimer' = ResetTimer(autoLockMinutes')
    /\ appData' = IF appData = Null THEN Null
                  ELSE <<[appData[1] EXCEPT !.settings.auto_lock_minutes = autoLockMinutes']>>
    /\ saves' = Enqueue(saves, passphrase, appData', "none")
    /\ lastSerialized' = Serialized(passphrase, appData')
    /\ UNCHANGED <<passphrase, screen, formVars, showFertility, store, loading, puts, wipes,
                   session, putFailures, unlockResult, loadResult, atLock, today, libVars>>

AutolockDown == AutolockStep(-1)
AutolockUp == AutolockStep(1)

\* the dbDelete of storage.wipe, queued behind the requests issued before it
WipeTask == [blob |-> Null, then |-> "wipe"]

\* btn-wipe click, both confirmations accepted, up to await storage.wipe()
WipeClick ==
    /\ screen = "settings"
    /\ Event
    /\ wipes' = wipes + 1
    /\ puts' = Append(puts, WipeTask)
    /\ UNCHANGED <<passphrase, appData, screen, formVars, autoLockTimer, autoLockMinutes,
                   showFertility, store, loading, saves, session, putFailures,
                   lastSerialized, unlockResult, loadResult, atLock, today, libVars>>

\* storage.wipe: dbDelete succeeds and the handler runs on
WipeDone ==
    /\ wipes > 0
    /\ puts # <<>>
    /\ Head(puts).then = "wipe"
    /\ puts' = Tail(puts)
    /\ wipes' = wipes - 1
    /\ store' = Null
    /\ passphrase' = Null
    /\ appData' = Null
    /\ screen' = "setup"
    /\ session' = "locked"
    /\ lastSerialized' = Null
    /\ atLock' = Null
    /\ UNCHANGED <<formVars, autoLockTimer, autoLockMinutes, showFertility, loading, saves,
                   events, putFailures, unlockResult, loadResult, today, libVars>>

\* midnight passes: fmtDate(new Date()) is the next day from now on
DayAdvances ==
    /\ daysBetween(AppToday, today) < MaxDayAdvances
    /\ Event
    /\ today' = addDays(today, 1)
    /\ UNCHANGED <<passphrase, appData, screen, formVars, autoLockTimer, autoLockMinutes,
                   showFertility, store, asyncVars, session, putFailures, lastSerialized,
                   unlockResult, loadResult, atLock, libVars>>

AppNext ==
    \/ InitDone
    \/ UserActivity
    \/ \E P \in Passphrases : SetupClick(P)
    \/ \E P \in Passphrases : UnlockClick(P)
    \/ LoadGet
    \/ LoadDecrypted
    \/ \E i \in 1..Len(saves) : SaveEncrypted(i)
    \/ SavePutDone
    \/ SavePutFailed
    \/ LockClick
    \/ TimerFires
    \/ PageHidden
    \/ \E date \in AppDates : OpenDayLog(date)
    \/ \E flow \in FlowLevels : SelectFlow(flow)
    \/ \E sym \in SymptomTypes : ToggleSymptom(sym)
    \/ \E text \in NoteTexts : TypeNotes(text)
    \/ SaveDayClick
    \/ BackToCalendar
    \/ StatsClick
    \/ SettingsClick
    \/ ToggleFertility
    \/ AutolockDown
    \/ AutolockUp
    \/ WipeClick
    \/ WipeDone
    \/ DayAdvances

AppInit ==
    /\ cryptoPc = "idle"
    /\ encPass = 0
    /\ plaintext = <<>>
    /\ envelope = <<>>
    /\ intact = FALSE
    /\ decPass = 0
    /\ decResult = NoResult
    /\ dayLogs = <<>>
    /\ today = AppToday
    /\ rebuilt = <<>>
    /\ cycles = <<>>
    /\ prediction = Null
    /\ fertility = Null
    /\ stats = cycleStats(<<>>)
    /\ passphrase = Null
    /\ appData = Null
    /\ screen = "none"
    /\ selectedDate = Null
    /\ selectedFlow = "None"
    /\ selectedSymptoms = <<>>
    /\ daylogNotes = ""
    /\ autoLockTimer = Null
    /\ autoLockMinutes = 5
    /\ showFertility = FALSE
    /\ store = Null
    /\ loading = Null
    /\ saves = <<>>
    /\ puts = <<>>
    /\ wipes = 0
    /\ session = "locked"
    /\ events = 0
    /\ putFailures = 0
    /\ lastSerialized = Null
    /\ unlockResult = "none"
    /\ loadResult = NoResult
    /\ atLock = Null

SpecApp == AppInit /\ [][AppNext]_vars

\* the timeout fires unless it is cleared, and what a handler awaits settles
SpecAppFair ==
    /\ SpecApp
    /\ WF_vars(TimerFires)
    /\ WF_vars(LoadGet) /\ WF_vars(LoadDecrypted)
    /\ WF_vars(\E i \in 1..Len(saves) : SaveEncrypted(i))
    /\ WF_vars(SavePutDone)
    /\ WF_vars(WipeDone)

(***************************************************************************)
(* SpecDayLog: the day-log form in one unlocked session.  It starts where  *)
(* SpecApp is after InitDone, SetupClick, SaveEncrypted and SavePutDone on *)
(* an empty vault, and spends its events on the form.                      *)
(***************************************************************************)
DayLogNext ==
    \/ \E date \in AppDates : OpenDayLog(date)
    \/ \E flow \in FlowLevels : SelectFlow(flow)
    \/ \E sym \in SymptomTypes : ToggleSymptom(sym)
    \/ \E text \in NoteTexts : TypeNotes(text)
    \/ SaveDayClick
    \/ BackToCalendar
    \/ \E i \in 1..Len(saves) : SaveEncrypted(i)
    \/ SavePutDone

DayLogInit ==
    /\ cryptoPc = "idle"
    /\ encPass = 0
    /\ plaintext = <<>>
    /\ envelope = <<>>
    /\ intact = FALSE
    /\ decPass = 0
    /\ decResult = NoResult
    /\ dayLogs = <<>>
    /\ today = AppToday
    /\ rebuilt = <<>>
    /\ cycles = <<>>
    /\ prediction = Null
    /\ fertility = Null
    /\ stats = cycleStats(<<>>)
    /\ passphrase \in {<<P>> : P \in Passphrases}
    /\ appData = <<defaultAppData>>
    /\ screen = "calendar"
    /\ selectedDate = Null
    /\ selectedFlow = "None"
    /\ selectedSymptoms = <<>>
    /\ daylogNotes = ""
    /\ autoLockMinutes = MinutesOr5(defaultAppData)
    /\ autoLockTimer = ResetTimer(autoLockMinutes)
    /\ showFertility = FALSE
    /\ store = <<Sealed(passphrase[1], JsonStringify(defaultAppData))>>
    /\ loading = Null
    /\ saves = <<>>
    /\ puts = <<>>
    /\ wipes = 0
    /\ session = "unlocked"
    /\ events = 0
    /\ putFailures = 0
    /\ lastSerialized = store
    /\ unlockResult = "none"
    /\ loadResult = NoResult
    /\ atLock = Null

SpecDayLog == DayLogInit /\ [][DayLogNext]_vars

(***************************************************************************)
(* Properties of the vault codec (SpecCrypto)                              *)
(***************************************************************************)
SameKeyOpened == cryptoPc = "opened" /\ intact /\ decPass = encPass
OtherKeyOpened == cryptoPc = "opened" /\ intact /\ decPass # encPass

\* C1: decrypting what encrypt returned, with the passphrase it was encrypted
\* with, succeeds and returns exactly the plaintext given to encrypt, for
\* every plaintext (the empty one too), salt and nonce.
C1_RoundTrip ==
    SameKeyOpened => decResult.ok /\ decResult.value = plaintext

C1_Witness ==
    SameKeyOpened /\ Len(plaintext) = MaxPlainLen /\ decResult.value = plaintext

\* C2: decrypting what encrypt returned with any other passphrase fails, and
\* always with the error "Wrong passphrase", whether the authentication tag or
\* the marker comparison rejected it; it never returns bytes.
C2_NoOracle ==
    OtherKeyOpened =>
        /\ ~decResult.ok
        /\ decResult.error = WrongPassphrase
        /\ decResult.at \in {"aead", "magic"}

C2_Witness ==
    OtherKeyOpened /\ decResult.at = "magic" /\ decResult.error = WrongPassphrase

\* C3: an envelope shorter than salt + nonce + marker (52 bytes), hence every
\* envelope shorter than 44 bytes, fails with "Invalid data format" under any
\* passphrase; an envelope of at least 52 bytes never fails with that error,
\* only with "Wrong passphrase".
C3_TruncatedIsCorrupt ==
    cryptoPc = "opened" =>
        /\ Len(envelope) < SALT_LEN + IV_LEN + Len(MAGIC) =>
              ~decResult.ok /\ decResult.error = CorruptData
        /\ Len(envelope) < 44 => ~decResult.ok /\ decResult.error = CorruptData
        /\ Len(envelope) >= SALT_LEN + IV_LEN + Len(MAGIC) /\ ~decResult.ok =>
              decResult.error = WrongPassphrase

C3_Witness ==
    /\ cryptoPc = "opened"
    /\ decPass = encPass
    /\ Len(envelope) = SALT_LEN + IV_LEN + Len(MAGIC) - 1
    /\ decResult.error = CorruptData

(***************************************************************************)
(* Properties of rebuildCycles (SpecRebuild)                               *)
(***************************************************************************)
\* the day numbers of the logged days with a flow
FlowNums ==
    {parseDate(dayLogs[i].date) :
        i \in {j \in 1..Len(dayLogs) : dayLogs[j].flow_level # "None"}}

SetMax(S) == CHOOSE x \in S : \A y \in S : y <= x

\* flow day f belongs to the i-th cycle returned
InCycle(f, i) ==
    /\ parseDate(rebuilt[i].start_date) <= f
    /\ i = Len(rebuilt) \/ f < parseDate(rebuilt[i + 1].start_date)

RunOf(i) == {f \in FlowNums : InCycle(f, i)}

Consecutive(f, g) == f < g /\ ~\E h \in FlowNums : f < h /\ h < g

\* C4: two consecutive flow dates are in the same cycle exactly when they are
\* at most 2 days apart; every cycle starts at the first flow date of its run,
\* a closed cycle ends at the last one, and every flow date is in exactly one
\* cycle.
C4_MergeSplit ==
    /\ \A f \in FlowNums : Cardinality({i \in 1..Len(rebuilt) : InCycle(f, i)}) = 1
    /\ \A f, g \in FlowNums :
          Consecutive(f, g) =>
             ((\E i \in 1..Len(rebuilt) : InCycle(f, i) /\ InCycle(g, i)) <=> g - f <= 2)
    /\ \A i \in 1..Len(rebuilt) :
          /\ parseDate(rebuilt[i].start_date) \in FlowNums
          /\ rebuilt[i].end_date # Null =>
                parseDate(rebuilt[i].end_date) = SetMax(RunOf(i))
    /\ FlowNums = {} => rebuilt = <<>>

C4_Witness ==
    /\ Len(rebuilt) = 2
    /\ \E f, g \in FlowNums : Consecutive(f, g) /\ g - f = 2 /\ InCycle(f, 1) /\ InCycle(g, 1)
    /\ \E f, g \in FlowNums : Consecutive(f, g) /\ g - f = 3 /\ InCycle(f, 1) /\ InCycle(g, 2)

Distance(a, b) == IF a >= b THEN a - b ELSE b - a

\* C5: the final cycle has end_date = null exactly when its last flow date is
\* within 2 days of today, and otherwise ends at its last flow date; every
\* earlier cycle is closed at the last flow date of its run.
C5_FinalRunOpenIffRecent ==
    Len(rebuilt) > 0 =>
        LET n == Len(rebuilt)
            lastFlow == SetMax(FlowNums)
        IN /\ rebuilt[n].end_date = Null <=> Distance(parseDate(today), lastFlow) <= 2
           /\ rebuilt[n].end_date # Null => parseDate(rebuilt[n].end_date) = lastFlow
           /\ \A i \in 1..(n - 1) :
                 /\ rebuilt[i].end_date # Null
                 /\ parseDate(rebuilt[i].end_date) = SetMax(RunOf(i))

(***************************************************************************)
(* Properties of predict and fertilityWindow (SpecPredict)                 *)
(***************************************************************************)
ClosedIdx == {i \in 1..Len(cycles) : cycles[i].end_date # Null}
OpenIdx == {i \in 1..Len(cycles) : cycles[i].end_date = Null}
StartNum(i) == parseDate(cycles[i].start_date)

\* C6: predict returns none with 0 or 1 closed cycles, however many open
\* cycles there are, and returns a prediction with 2 or more closed cycles.
C6_NeedsTwoClosed ==
    /\ Cardinality(ClosedIdx) <= 1 => prediction = Null
    /\ Cardinality(ClosedIdx) >= 2 => prediction # Null

C6_Witness ==
    Cardinality(ClosedIdx) = 1 /\ Cardinality(OpenIdx) >= 2 /\ prediction = Null

\* The sample window: the (at most 6) closed cycles with the latest starts;
\* among closed cycles sharing the earliest sampled start, the ones latest in
\* the list.  nums maps the index of each closed cycle to its start day.
StartNums == [i \in ClosedIdx |-> StartNum(i)]

SampleSizeOf(nums) ==
    IF Cardinality(DOMAIN nums) < 6 THEN Cardinality(DOMAIN nums) ELSE 6

SampleLowOf(nums, size) ==
    CHOOSE v \in {nums[i] : i \in DOMAIN nums} :
        /\ Cardinality({i \in DOMAIN nums : nums[i] > v}) < size
        /\ Cardinality({i \in DOMAIN nums : nums[i] >= v}) >= size

SampleHighOf(nums) == SetMax({nums[i] : i \in DOMAIN nums})

SampleOf(nums, low, size) ==
    LET above == Cardinality({j \in DOMAIN nums : nums[j] > low})
    IN {i \in DOMAIN nums :
          \/ nums[i] > low
          \/ /\ nums[i] = low
             /\ above + Cardinality({j \in DOMAIN nums : nums[j] = low /\ j > i}) < size}

\* r is x / n rounded to the nearest integer (n > 0)
IsRounded(r, x, n) == 2 * n * r <= 2 * x + n /\ 2 * x + n < 2 * n * (r + 1)

RECURSIVE PeriodDays(_)
\* the days (end - start + 1) of the cycles with the given indices, summed
PeriodDays(I) ==
    IF I = {} THEN 0
    ELSE LET i == CHOOSE x \in I : TRUE
         IN parseDate(cycles[i].end_date) - StartNum(i) + 1 + PeriodDays(I \ {i})

SampleLengths == CycleLengths(Recent(Completed(cycles)))
LenSum == SumSeq(SampleLengths)
LenSqSum == SumSeq([i \in 1..Len(SampleLengths) |-> SampleLengths[i] * SampleLengths[i]])

\* variance = (k * LenSqSum - LenSum^2) / (k * (k - 1)), mean = LenSum / k
SdIsZero == \A i \in 1..Len(SampleLengths) : SampleLengths[i] = SampleLengths[1]
SdAtLeastMean ==
    /\ Len(SampleLengths) >= 2
    /\ Len(SampleLengths) * (Len(SampleLengths) * LenSqSum - LenSum * LenSum)
         >= (Len(SampleLengths) - 1) * LenSum * LenSum

IsNumberIn01_095(c) == c.kind = "fin" /\ 400 * c.rn >= c.rd /\ 100 * c.rn <= 81 * c.rd

\* C9: whenever predict returns a prediction its confidence is a number in
\* [0.1, 0.95]: 0.95 when the standard deviation of the cycle lengths is 0,
\* 0.1 when it is at least their mean; also when the mean cycle length is 0.
C9_ConfidenceClamped ==
    prediction # Null =>
        /\ IsNumberIn01_095(prediction[1].confidence)
        /\ SdIsZero => prediction[1].confidence = Lit_0_95
        /\ SdAtLeastMean => prediction[1].confidence = Lit_0_1

\* C10: fertilityWindow is none exactly when predict is none; otherwise
\* ovulation_day = predicted_start - 14, fertile_start = ovulation_day - 5,
\* peak_start = ovulation_day - 2, fertile_end = peak_end = ovulation_day, so
\* fertile_start < peak_start < ovulation_day < predicted_start.
C10_FertilityWindow ==
    /\ fertility = Null <=> prediction = Null
    /\ fertility # Null =>
          LET f == fertility[1]
              ov == parseDate(f.ovulation_day)
          IN /\ ov = parseDate(prediction[1].predicted_start) - 14
             /\ parseDate(f.fertile_start) = ov - 5
             /\ parseDate(f.peak_start) = ov - 2
             /\ f.fertile_end = f.ovulation_day
             /\ f.peak_end = f.ovulation_day
             /\ StrLess(f.fertile_start, f.peak_start)
             /\ StrLess(f.peak_start, f.ovulation_day)
             /\ StrLess(f.ovulation_day, prediction[1].predicted_start)

C10_Witness ==
    /\ fertility # Null
    /\ prediction[1].confidence.kind = "fin"
    /\ fertility[1].ovulation_day[2] # prediction[1].predicted_start[2]
    /\ fertility[1].fertile_start[2] = fertility[1].ovulation_day[2]

(***************************************************************************)
(* Properties of cycleStats (SpecPredict)                                  *)
(***************************************************************************)
ClosedStartNums == {StartNum(i) : i \in ClosedIdx}
LatestClosed == CHOOSE i \in ClosedIdx : \A j \in ClosedIdx : StartNum(j) <= StartNum(i)

\* C11: cycleStats returns total_cycles = the number of closed cycles; with
\* no closed cycle every other field is none; with exactly one,
\* avg_period_length and last_period_start/end are present and
\* avg_cycle_length, shortest_cycle, longest_cycle are none; with two or more
\* every field is present.
C11_StatsFields ==
    /\ stats.ok
    /\ LET st == stats.value[1]
           n == Cardinality(ClosedIdx)
       IN /\ st.total_cycles = n
          /\ n = 0 =>
                /\ st.avg_cycle_length = Null /\ st.avg_period_length = Null
                /\ st.shortest_cycle = Null /\ st.longest_cycle = Null
                /\ st.last_period_start = Null /\ st.last_period_end = Null
          /\ n >= 1 =>
                /\ st.avg_period_length # Null
                /\ st.avg_period_length[1].num = PeriodDays(ClosedIdx)
                /\ st.avg_period_length[1].den = n
                /\ st.last_period_start # Null /\ st.last_period_end # Null
                /\ parseDate(st.last_period_start) = StartNum(LatestClosed)
          /\ n = 1 =>
                /\ st.avg_cycle_length = Null
                /\ st.shortest_cycle = Null /\ st.longest_cycle = Null
          /\ n >= 2 =>
                /\ st.avg_cycle_length # Null
                /\ st.shortest_cycle # Null /\ st.longest_cycle # Null
                /\ st.shortest_cycle[1] <= st.longest_cycle[1]
                /\ st.avg_cycle_length[1].den = n - 1
                /\ st.avg_cycle_length[1].num
                      = SetMax(ClosedStartNums) - (CHOOSE x \in ClosedStartNums :
                                                     \A y \in ClosedStartNums : x <= y)

C11_Witness ==
    /\ Cardinality(ClosedIdx) = 1
    /\ Cardinality(OpenIdx) >= 1
    /\ stats.ok
    /\ stats.value[1].avg_period_length # Null
    /\ stats.value[1].avg_cycle_length = Null

(***************************************************************************)
(* Insufficient data (SpecRebuild: day logs -> cycles -> forecasts)        *)
(***************************************************************************)
AllStatsNone(st) ==
    /\ st.total_cycles = 0
    /\ st.avg_cycle_length = Null /\ st.avg_period_length = Null
    /\ st.shortest_cycle = Null /\ st.longest_cycle = Null
    /\ st.last_period_start = Null /\ st.last_period_end = Null

\* C19: no call fails for want of data.  No flow day (no log at all, or only
\* None-flow logs) gives the empty list; a single flow day gives one cycle;
\* fewer than two closed cycles, among them a list of open cycles only, give
\* no prediction and no fertility window; cycleStats always returns, with
\* every field none when no cycle is closed.
C19_NoThrowOnLittleData ==
    /\ FlowNums = {} => rebuilt = <<>>
    /\ Cardinality(FlowNums) = 1 =>
          /\ Len(rebuilt) = 1
          /\ parseDate(rebuilt[1].start_date) \in FlowNums
    /\ Cardinality(ClosedIdx) < 2 => prediction = Null /\ fertility = Null
    /\ stats.ok
    /\ ClosedIdx = {} => AllStatsNone(stats.value[1])

C19_Witness ==
    /\ Len(dayLogs) = MaxLogs
    /\ Len(cycles) > 0
    /\ ClosedIdx = {}
    /\ prediction = Null
    /\ stats.ok /\ AllStatsNone(stats.value[1])

(***************************************************************************)
(* Properties of the app session (SpecApp)                                 *)
(***************************************************************************)
\* no handler is suspended on an await
Idle == loading = Null /\ saves = <<>> /\ puts = <<>> /\ wipes = 0
Unlocked == session = "unlocked"
HoldsData == passphrase # Null /\ appData # Null

\* C12: in every state of an unlocked session where no handler is running
\* (after setup, after unlock, after each day-log save, and after the
\* calendar day advanced without a mutation), appData.cycles equals
\* rebuildCycles(appData.day_logs) evaluated at the current day.
C12_CyclesAreAView ==
    (Idle /\ Unlocked /\ HoldsData) =>
        appData[1].cycles = rebuildCycles(appData[1].day_logs, today)

\* C13: once the saves that overlapped have all finished (none rejected), the
\* blob in the store is the one serialized by the latest saveData call, never
\* one serialized before it.
C13_SavesCommitInOrder ==
    (saves = <<>> /\ puts = <<>> /\ wipes = 0 /\ putFailures = 0 /\ lastSerialized # Null) =>
        store = lastSerialized

\* C14: when an unlock attempt fails (store read, decryption, parse, rebuild
\* or the save that follows), passphrase and appData are null afterwards and
\* the session is locked.
C14_FailedUnlockLeavesNothing ==
    [][(unlockResult = "pending" /\ unlockResult' = "failed") =>
          (passphrase' = Null /\ appData' = Null /\ session' = "locked")]_vars

\* equal day_logs, symptoms and settings
SameUserData(a, b) ==
    a.day_logs = b.day_logs /\ a.symptoms = b.symptoms /\ a.settings = b.settings

\* C15: an unlock with the passphrase the blob was sealed with gets the data
\* back, and when it succeeds appData has the day_logs, symptoms and settings
\* held just before the lock; an unlock with any other passphrase fails and
\* leaves the session locked and the memory as it was.
C15_SessionRoundTrip ==
    [][/\ (unlockResult = "pending" /\ unlockResult' = "ok" /\ atLock # Null) =>
             SameUserData(appData'[1], atLock[1])
       /\ (loading # Null /\ loading[1].stage = "decrypt" /\ loading' = Null) =>
             IF loading[1].pass = loading[1].slot[1].key
             THEN loadResult'.ok /\ appData' # Null
             ELSE /\ ~loadResult'.ok
                  /\ unlockResult' = "failed"
                  /\ session' = "locked"
                  /\ appData' = appData /\ passphrase' = passphrase]_vars

\* C16: in every state of an unlocked session where nothing is in flight (and
\* no put was rejected), the blob in the store decrypts under the session
\* passphrase to JSON.stringify of the current appData.
C16_EveryMutationPersisted ==
    (Idle /\ Unlocked /\ HoldsData /\ putFailures = 0) =>
        Opened(passphrase[1], store) = Returned(JsonStringify(appData[1]))

\* C17: passphrase and appData are non-null only while the vault is unlocked:
\* once doLock or wipe has ended the session both are null, and they stay
\* null for as long as the session is locked and no setup or unlock handler
\* is under way, whatever was in flight at the moment of the lock.
C17_NullWhileLocked ==
    (session = "locked" /\ loading = Null /\ ~InFlight("setup") /\ ~InFlight("unlock")) =>
        (passphrase = Null /\ appData = Null)

\* C18: load on a store that holds no blob throws "No data found", which is
\* neither "Wrong passphrase" nor "Invalid data format", whatever the
\* passphrase, before any key derivation or decryption.
C18_NoVaultFound ==
    [][(loading # Null /\ loading' = Null
          /\ (IF loading[1].stage = "get" THEN store ELSE loading[1].slot) = Null) =>
          /\ ~loadResult'.ok
          /\ loadResult'.error = NoVaultFound
          /\ loadResult'.error \notin {WrongPassphrase, CorruptData}
          /\ loadResult'.at = "store"
          /\ loading[1].stage = "get"]_vars

\* a load that found the store empty ended the unlock attempt
C18_Witness ==
    /\ loadResult.error = NoVaultFound
    /\ unlockResult = "failed"
    /\ store = Null
    /\ screen = "unlock"

\* C20: while the session is unlocked an auto-lock timer is pending, set for
\* autoLockMinutes (so after every successful setup or unlock), and once the
\* pointer and key events stop the session locks.
C20_AutoLock ==
    /\ [](Unlocked => autoLockTimer = <<autoLockMinutes>>)
    /\ (Unlocked ~> session = "locked")

\* the timer fired with no event since the session was entered, and locked it
C20_Witness ==
    /\ session = "locked"
    /\ atLock # Null
    /\ events = 1
    /\ screen = "unlock"
    /\ autoLockTimer = Null

(***************************************************************************)
(* Properties of the day-log form (SpecDayLog)                             *)
(***************************************************************************)
\* the step is a btn-save-day click that went on to saveData()
SavedDay == Len(saves') = Len(saves) + 1 /\ saves'[Len(saves')].then = "saveday"

\* the indices of the entries of a list that carry the date
IndicesOf(list, date) == {i \in 1..Len(list) : list[i].date = date}

\* C21: date is a unique key of day_logs.  Starting from an empty vault,
\* after every step day_logs holds at most one entry per date; a day-log
\* save leaves the entry of its date with the flow level and the notes of
\* the form, and no other step changes day_logs, so an entry carries what
\* the latest save for its date gave it (repeated saves and saves with flow
\* None included).
C21_DateIsKey ==
    [][/\ \A d \in AppDates : Cardinality(IndicesOf(appData'[1].day_logs, d)) <= 1
       /\ SavedDay =>
             \E i \in IndicesOf(appData'[1].day_logs, selectedDate) :
                 appData'[1].day_logs[i] =
                     [date |-> selectedDate, flow_level |-> selectedFlow,
                      notes |-> daylogNotes]
       /\ ~SavedDay => appData'[1].day_logs = appData[1].day_logs]_vars

\* a date saved with flow None and saved again with a flow and notes while
\* the first save is still in flight: one entry, carrying the second save
C21_Witness ==
    /\ Len(appData[1].day_logs) = 1
    /\ appData[1].day_logs[1].flow_level = "Medium"
    /\ appData[1].day_logs[1].notes = "tired"
    /\ Len(saves) + Len(puts) = 2
    /\ \E q \in {saves, puts} : Len(q) > 0 /\
          JsonParse(q[1].blob.text).day_logs =
              <<[date |-> appData[1].day_logs[1].date, flow_level |-> "None", notes |-> ""]>>

\* the entries of a list that carry the date, and those that do not
OnDate(list, date) == LET Same(l) == l.date = date IN SelectSeq(list, Same)
OffDate(list, date) == LET Other(l) == l.date # date IN SelectSeq(list, Other)

\* C22: a day-log save for date D leaves, as the symptoms of D, exactly one
\* entry per selected symptom type, each with a severity in 1..3, and leaves
\* the day logs and the symptoms of every other date, and the settings, as
\* they were.
C22_SaveDayFrame ==
    [][SavedDay =>
         LET D == selectedDate
             onD == OnDate(appData'[1].symptoms, D)
         IN /\ \A k \in 1..Len(selectedSymptoms) :
                  Cardinality({i \in 1..Len(onD) :
                                  onD[i].symptom_type = selectedSymptoms[k]}) = 1
            /\ \A i \in 1..Len(onD) :
                  /\ \E k \in 1..Len(selectedSymptoms) :
                        onD[i].symptom_type = selectedSymptoms[k]
                  /\ onD[i].severity \in 1..3
            /\ OffDate(appData'[1].symptoms, D) = OffDate(appData[1].symptoms, D)
            /\ OffDate(appData'[1].day_logs, D) = OffDate(appData[1].day_logs, D)
            /\ appData'[1].settings = appData[1].settings]_vars

\* a second date was saved while the first date has a symptom: the symptom
\* and the day log of the first date are still there
C22_Witness ==
    /\ Len(appData[1].day_logs) = 2
    /\ Len(appData[1].symptoms) = 1
    /\ appData[1].symptoms[1].date = appData[1].day_logs[1].date
    /\ selectedDate = appData[1].day_logs[2].date
    /\ selectedSymptoms = <<>>

(***************************************************************************)
(* Shape of the list rebuildCycles returns (SpecRebuild)                   *)
(***************************************************************************)
\* C23: the list rebuildCycles returns is sorted by strictly increasing
\* start_date, every closed cycle has start_date <= end_date, each cycle
\* starts more than 2 days after the last flow date of the cycle before it,
\* and at most one cycle is open, which can only be the last one.
C23_RebuiltShape ==
    \A i \in 1..Len(rebuilt) :
        /\ rebuilt[i].end_date # Null =>
              parseDate(rebuilt[i].start_date) <= parseDate(rebuilt[i].end_date)
        /\ rebuilt[i].end_date = Null => i = Len(rebuilt)
        /\ i > 1 =>
              /\ StrLess(rebuilt[i - 1].start_date, rebuilt[i].start_date)
              /\ RunOf(i - 1) # {}
              /\ parseDate(rebuilt[i].start_date) - SetMax(RunOf(i - 1)) > 2

\* logs given out of date order that make a closed cycle of two flow days
\* followed, three days later, by an open one
C23_Witness ==
    /\ Len(rebuilt) = 2
    /\ rebuilt[1].end_date # Null
    /\ StrLess(rebuilt[1].start_date, rebuilt[1].end_date)
    /\ rebuilt[2].end_date = Null
    /\ parseDate(rebuilt[2].start_date) - parseDate(rebuilt[1].end_date) = 3
    /\ StrLess(dayLogs[3].date, dayLogs[1].date)

\* the dates logged with a flow
FlowDateSet == {dayLogs[i].date : i \in {j \in 1..Len(dayLogs) : dayLogs[j].flow_level # "None"}}

RECURSIVE LatestFirst(_)
\* one log per date of the set, the latest date first
LatestFirst(S) ==
    IF S = {} THEN <<>>
    ELSE LET m == CHOOSE x \in S : \A y \in S : y = x \/ StrLess(y, x)
         IN <<[date |-> m, flow_level |-> "Heavy", notes |-> ""]>> \o LatestFirst(S \ {m})

\* C24: rebuildCycles depends only on the set of dates with flow_level other
\* than None: whatever the order of the logs, the repeats among them and the
\* logs with flow None, the result is the one for one log per flow date (for
\* the same today).
C24_OnlyFlowDatesMatter ==
    rebuilt = rebuildCycles(LatestFirst(FlowDateSet), today)

\* two flow days three days apart, the later one logged first, and a log
\* with flow None dated between them that would join them into one cycle
C24_Witness ==
    /\ Len(dayLogs) = 3
    /\ dayLogs[1].flow_level # "None" /\ dayLogs[2].flow_level # "None"
    /\ daysBetween(dayLogs[2].date, dayLogs[1].date) = 3
    /\ dayLogs[3].flow_level = "None"
    /\ daysBetween(dayLogs[2].date, dayLogs[3].date) = 1
    /\ Len(rebuilt) = 2

(***************************************************************************)
(* What predict reads of its input (SpecPredictTies)                       *)
(***************************************************************************)
\* the list with the entries at i and i + 1 exchanged
SwapAt(list, i) == [list EXCEPT ![i] = list[i + 1], ![i + 1] = list[i]]

\* the closed cycle at i starts before the 6 closed cycles that start latest
StartsBeforeSample(i) ==
    LET completed == Completed(cycles)
    IN /\ cycles[i].end_date # Null
       /\ Len(completed) > 6
       /\ StrLess(cycles[i].start_date, Recent(completed)[1].start_date)

\* C25: predict depends only on the 6 closed cycles with the latest start
\* dates: exchanging two neighbours of the list (so every permutation of
\* it), dropping an open cycle, or dropping a closed cycle that starts
\* before those 6 leaves the returned prediction as it is.
C25_PredictReadsSampleOnly ==
    /\ \A i \in 1..(Len(cycles) - 1) : predict(SwapAt(cycles, i)) = prediction
    /\ \A i \in 1..Len(cycles) :
          (cycles[i].end_date = Null \/ StartsBeforeSample(i)) =>
              predict(RemoveAt(cycles, i)) = prediction

(***************************************************************************)
(* predict on what rebuildCycles returns (SpecRebuild)                     *)
(***************************************************************************)
RebuiltClosed == {i \in 1..Len(rebuilt) : rebuilt[i].end_date # Null}

\* C26: in the list rebuildCycles returns, two closed cycles start at least
\* 3 days apart; so whenever predict returns a prediction for it, the mean
\* cycle length is positive, confidence is a number and predicted_start is
\* after the start of the latest closed cycle.
C26_RebuiltPredictsWell ==
    /\ \A i, j \in RebuiltClosed :
          i < j => daysBetween(rebuilt[i].start_date, rebuilt[j].start_date) >= 3
    /\ prediction # Null =>
          LET starts == {parseDate(rebuilt[i].start_date) : i \in RebuiltClosed}
              lengths == CycleLengths(Recent(Completed(rebuilt)))
          IN /\ Len(lengths) > 0
             /\ SumSeq(lengths) > 0
             /\ prediction[1].confidence.kind = "fin"
             /\ parseDate(prediction[1].predicted_start) > SetMax(starts)

\* two closed cycles, so predict returns a prediction
C26_Witness ==
    /\ Cardinality(RebuiltClosed) = 2
    /\ prediction # Null
    /\ cycles = rebuilt
    /\ daysBetween(rebuilt[1].start_date, rebuilt[2].start_date) = 3

(***************************************************************************)
(* Screens, the store and wipe (SpecApp)                                   *)
(***************************************************************************)
DataScreens == {"calendar", "daylog", "stats", "settings"}

\* C27: a data screen (calendar, day log, stats, settings) is displayed only
\* while the session is unlocked: in every reachable state, also when a lock
\* happened while a handler was suspended on a save, a displayed data screen
\* implies that passphrase and appData are non-null.
C27_DataScreenOnlyUnlocked ==
    screen \in DataScreens => (passphrase # Null /\ appData # Null)

\* C28: the lock-side screen matches the store: the unlock screen is
\* displayed only when the store holds a blob and the setup screen only when
\* it holds none, also after a timer that a pointer or key event started on
\* the setup screen, or that was pending across a wipe, has fired.
C28_LockScreenMatchesStore ==
    /\ screen = "unlock" => store # Null
    /\ screen = "setup" => store = Null

\* nothing is in flight and no save was called since the vault was last
\* empty: since the start, or since the wipe handler completed
WipedAndQuiet == Idle /\ lastSerialized = Null /\ passphrase = Null

\* C29: wipe is final: once the wipe handler has completed and everything
\* that was in flight has finished, the store holds no blob until a new
\* setup, also when a save was awaiting encryption or its put while the
\* wipe deleted the blob.
C29_WipeIsFinal ==
    WipedAndQuiet => store = Null

====
